---- MODULE Spec2Model ----
(* Model of shadowsocks/cipherman.py: the CipherMan session cipher manager,   *)
(* its shared replay filter (CipherMan.bf), the user directory it reads and   *)
(* writes, and the cipher classes it drives.                                   *)
EXTENDS Integers, Sequences, FiniteSets, TLC

(* ------------------------------------------------------------------------ *)
(* Bounds of the model                                                        *)
(* ------------------------------------------------------------------------ *)
NumSessions == 2
NumUsers == 3
MaxLen == 4
MaxEncLen == 1
MaxCalls == 2

(* Size of the byte alphabet of the wire; also the modulus of the cipher.     *)
ByteMod == 3

Sessions == 1..NumSessions
Users == 1..NumUsers
Ports == {1, 2}
Bytes == 0..(ByteMod - 1)

TRANSPORT_TCP == "tcp"
TRANSPORT_UDP == "udp"
Transports == {TRANSPORT_TCP, TRANSPORT_UDP}

(* Optional values: <<>> is Python's None, <<v>> is the value v.              *)
NoneVal == <<>>
Some(v) == <<v>>
NoUser == 0

(* The value of a one-element set; binds a result that is used many times.    *)
The(S) == CHOOSE x \in S : TRUE

RECURSIVE SeqsUpTo(_)
SeqsUpTo(n) ==
    IF n = 0 THEN {<<>>}
    ELSE LET shorter == SeqsUpTo(n - 1)
         IN  shorter \cup {Append(q, b) : q \in {x \in shorter : Len(x) = n - 1}, b \in Bytes}

DataSet == SeqsUpTo(MaxLen)
EncDataSet == SeqsUpTo(MaxEncLen)

RECURSIVE SumSeq(_)
SumSeq(q) == IF q = <<>> THEN 0 ELSE Head(q) + SumSeq(Tail(q))

(* ------------------------------------------------------------------------ *)
(* User directory (shadowsocks.mdb.models.User)                               *)
(* ------------------------------------------------------------------------ *)
(* The last user is alone on port 2, every other user listens on port 1.      *)
UserPort(u) == IF u = NumUsers THEN 2 ELSE 1
Password(u) == ((u - 1) % (ByteMod - 1)) + 1
DisabledUser == 1
(* The directory either gives every user one method or gives MixedUser,      *)
(* a candidate of the shared port, another one.                               *)
MixedUser == 2
MethodTables ==
    {[u \in Users |-> "aes-256-gcm"],
     [u \in Users |-> IF u = MixedUser THEN "aes-128-gcm" ELSE "aes-256-gcm"]}
Passwords == {Password(u) : u \in Users}

(* Users sorted by access_order, best (largest) first; ties keep id order.    *)
Better(ao, u, v) == ao[u] > ao[v] \/ (ao[u] = ao[v] /\ u < v)

RECURSIVE SortUsers(_, _)
SortUsers(S, ao) ==
    IF S = {} THEN <<>>
    ELSE LET best == CHOOSE u \in S : \A v \in S \ {u} : Better(ao, u, v)
         IN  <<best>> \o SortUsers(S \ {best}, ao)

ListByPort(port, ao) == SortUsers({u \in Users : UserPort(u) = port}, ao)

(* user_list.first(): the session's query run again with a limit of one, the  *)
(* directory's best candidate of the port as it is ordered now.               *)
First(user_list, ao) == ListByPort(UserPort(user_list[1]), ao)[1]

(* ------------------------------------------------------------------------ *)
(* Cipher classes (shadowsocks.ciphers): an AEAD with a one byte salt and a   *)
(* one byte tag over the alphabet Bytes.                                      *)
(* ------------------------------------------------------------------------ *)
SALT_SIZE == 1
TAG_SIZE == 1
SUPPORT_METHODS == {"none", "aes-256-cfb", "aes-128-gcm", "aes-256-gcm", "chacha20-ietf-poly1305"}

Mac(pw, salt, body) == (pw + SumSeq(salt) + SumSeq(body)) % ByteMod
TagOf(m) == [i \in 1..TAG_SIZE |-> m]
Encode(k, p) == [i \in 1..Len(p) |-> (p[i] + k) % ByteMod]
Decode(k, c) == [i \in 1..Len(c) |-> (c[i] + ByteMod - (k % ByteMod)) % ByteMod]

(* A cipher instance: id 0 is "no cipher"; enc/dec count the calls served,    *)
(* they are the nonces of the stream.                                         *)
NoCipher == [id |-> 0, pw |-> 0, enc |-> 0, dec |-> 0]
NewCipher(id, pw) == [id |-> id, pw |-> pw, enc |-> 0, dec |-> 0]

(* pack / unpack: salt ++ ciphertext ++ tag, self-contained per packet.       *)
Pack(pw, salt, p) ==
    LET c == Encode(pw, p) IN salt \o c \o TagOf(Mac(pw, salt, c))

Unpack(pw, d) ==
    LET salt == SubSeq(d, 1, SALT_SIZE)
        body == SubSeq(d, SALT_SIZE + 1, Len(d) - TAG_SIZE)
        tag  == SubSeq(d, Len(d) - TAG_SIZE + 1, Len(d))
    IN  IF tag = TagOf(Mac(pw, salt, body))
        THEN [st |-> "ok", pt |-> Decode(pw, body)]
        ELSE [st |-> "mac", pt |-> <<>>]

(* First decrypt of a stream: salt ++ encrypted length (2) ++ tag ++ payload. *)
(* An authentic length field above the protocol's limit is a malformed        *)
(* packet: an error that is not the MAC failure.                              *)
StreamDecryptFirst(pw, d) ==
    LET salt == SubSeq(d, 1, SALT_SIZE)
        lenf == SubSeq(d, SALT_SIZE + 1, SALT_SIZE + 2)
        tag  == SubSeq(d, SALT_SIZE + 3, SALT_SIZE + 2 + TAG_SIZE)
        rest == SubSeq(d, SALT_SIZE + 2 + TAG_SIZE + 1, Len(d))
    IN  IF tag # TagOf(Mac(pw, salt, lenf))
        THEN [st |-> "mac", pt |-> <<>>]
        ELSE IF Decode(pw, lenf)[1] = ByteMod - 1
        THEN [st |-> "other", pt |-> <<>>]
        ELSE [st |-> "ok", pt |-> Decode(pw, rest)]

(* One trial of a candidate's cipher on a blob: "ok" with the plaintext,      *)
(* "mac" for ValueError("MAC check failed"), "other" for any other error.     *)
CipherTry(proto, pw, d) ==
    IF proto = TRANSPORT_TCP THEN StreamDecryptFirst(pw, d) ELSE Unpack(pw, d)

(* Later calls on a live stream cipher.                                       *)
StreamDecrypt(c, d) == [cipher |-> [c EXCEPT !.dec = @ + 1], out |-> Decode(c.pw + c.dec, d)]
StreamEncrypt(c, p) == [cipher |-> [c EXCEPT !.enc = @ + 1], out |-> Encode(c.pw + c.enc, p)]

(* ------------------------------------------------------------------------ *)
(* Replay filter: CipherMan.bf = BloomFilter(), a bit array shared by every   *)
(* session. A salt sets and tests two bits.                                   *)
(* ------------------------------------------------------------------------ *)
BloomBits == 5

RECURSIVE SaltNum(_)
SaltNum(salt) == IF salt = <<>> THEN 0 ELSE Head(salt) + ByteMod * SaltNum(Tail(salt))
BfHash(salt) == {SaltNum(salt) % BloomBits, (2 * SaltNum(salt) + 1) % BloomBits}
BfContains(bits, salt) == BfHash(salt) \subseteq bits
BfAdd(bits, salt) == bits \cup BfHash(salt)

(* ------------------------------------------------------------------------ *)
(* State                                                                      *)
(* ------------------------------------------------------------------------ *)
VARIABLES
    cm,                      \* the CipherMan instances, one record per session
    bf,                      \* CipherMan.bf, the bits of the shared filter
    access_order,            \* User.access_order of every user
    enable,                  \* User.enable of every user
    traffic,                 \* traffic recorded per user by User.record_traffic
    NETWORK_TRANSMIT_BYTES,  \* the process-wide counter
    calls,                   \* number of calls made so far
    last,                    \* what the last call was given, did and returned
    processed,               \* salts _find_access_user has been given so far
    fresh_obs,               \* per salt, how many identifications saw it fresh
    made,                    \* per session, how often self.cipher was assigned
    failed,                  \* stream sessions whose identification has failed
    promoted,                \* per port, the user the last promotion was for
    born,                    \* per session, promoted[port] when it was created
    method                   \* User.method of every user

vars == <<cm, bf, access_order, enable, traffic, NETWORK_TRANSMIT_BYTES, calls,
          last, processed, fresh_obs, made, failed, promoted, born, method>>

UserMethod(u) == method[u]

SaltSet == {q \in SeqsUpTo(SALT_SIZE) : Len(q) = SALT_SIZE}

(* __init__: the fields of a CipherMan.                                       *)
NewCipherMan(user_list, access_user, ts_protocol) ==
    [alive |-> TRUE,
     user_list |-> user_list,
     access_user |-> access_user,
     ts_protocol |-> ts_protocol,
     cipher |-> NoCipher,
     first_data |-> NoneVal,
     buffer |-> <<>>,
     last_access_user |-> NoUser,
     method |-> IF access_user # NoUser THEN UserMethod(access_user)
                ELSE UserMethod(user_list[1]),
     first_data_len |-> IF ts_protocol = TRANSPORT_TCP
                        THEN SALT_SIZE + 2 + TAG_SIZE
                        ELSE SALT_SIZE + TAG_SIZE]

NotCreated ==
    [alive |-> FALSE, user_list |-> <<>>, access_user |-> NoUser,
     ts_protocol |-> TRANSPORT_TCP, cipher |-> NoCipher, first_data |-> NoneVal,
     buffer |-> <<>>, last_access_user |-> NoUser, method |-> "none",
     first_data_len |-> 0]

(* ------------------------------------------------------------------------ *)
(* _find_access_user                                                          *)
(* ------------------------------------------------------------------------ *)
(* Variant: the loop lacks the break, a match does not end it.                *)
RECURSIVE TrialLoop_NoBreak(_, _, _, _, _)
TrialLoop_NoBreak(self, first_data, cid, i, tried) ==
    IF i > Len(self.user_list)
    THEN [self |-> self, exc |-> "", cnt |-> Len(tried), tried |-> tried]
    ELSE LET user == self.user_list[i]
             s1 == IF self.last_access_user = NoUser
                   THEN [self EXCEPT !.last_access_user = user]
                   ELSE self
             t == CipherTry(self.ts_protocol, Password(user), first_data)
             tr == Append(tried, user)
         IN  IF t.st = "mac" THEN TrialLoop_NoBreak(s1, first_data, cid, i + 1, tr)
             ELSE IF t.st = "ok"
             THEN TrialLoop_NoBreak(
                      [s1 EXCEPT !.first_data = Some(t.pt),
                                 !.cipher = IF self.ts_protocol = TRANSPORT_TCP
                                            THEN [NewCipher(cid, Password(user)) EXCEPT !.dec = 1]
                                            ELSE @,
                                 !.access_user = user],
                      first_data, cid, i + 1, tr)
             ELSE [self |-> s1, exc |-> "ValueError", cnt |-> Len(tr), tried |-> tr]

(* Variant: the first MAC failure ends the search instead of moving on.       *)
TrialLoop_StopAtFirstMac(self, first_data, cid, i, tried) ==
    IF i > Len(self.user_list)
    THEN [self |-> self, exc |-> "", cnt |-> Len(tried), tried |-> tried]
    ELSE LET user == self.user_list[i]
             s1 == IF self.last_access_user = NoUser
                   THEN [self EXCEPT !.last_access_user = user]
                   ELSE self
             t == CipherTry(self.ts_protocol, Password(user), first_data)
             tr == Append(tried, user)
         IN  IF t.st = "mac"
             THEN [self |-> s1, exc |-> "", cnt |-> Len(tr), tried |-> tr]
             ELSE IF t.st = "ok"
             THEN [self |-> [s1 EXCEPT !.first_data = Some(t.pt),
                                       !.cipher = IF self.ts_protocol = TRANSPORT_TCP
                                                  THEN [NewCipher(cid, Password(user)) EXCEPT !.dec = 1]
                                                  ELSE @,
                                       !.access_user = user],
                   exc |-> "", cnt |-> Len(tr), tried |-> tr]
             ELSE [self |-> s1, exc |-> "ValueError", cnt |-> Len(tr), tried |-> tr]

(* Variant: every error of a candidate's cipher moves on to the next one.     *)
RECURSIVE TrialLoop_SkipAnyError(_, _, _, _, _)
TrialLoop_SkipAnyError(self, first_data, cid, i, tried) ==
    IF i > Len(self.user_list)
    THEN [self |-> self, exc |-> "", cnt |-> Len(tried), tried |-> tried]
    ELSE LET user == self.user_list[i]
             s1 == IF self.last_access_user = NoUser
                   THEN [self EXCEPT !.last_access_user = user]
                   ELSE self
             t == CipherTry(self.ts_protocol, Password(user), first_data)
             tr == Append(tried, user)
         IN  IF t.st = "ok"
             THEN [self |-> [s1 EXCEPT !.first_data = Some(t.pt),
                                       !.cipher = IF self.ts_protocol = TRANSPORT_TCP
                                                  THEN [NewCipher(cid, Password(user)) EXCEPT !.dec = 1]
                                                  ELSE @,
                                       !.access_user = user],
                   exc |-> "", cnt |-> Len(tr), tried |-> tr]
             ELSE TrialLoop_SkipAnyError(s1, first_data, cid, i + 1, tr)

(* The for loop over self.user_list, from candidate i on. tried lists the     *)
(* candidates whose cipher was run; cnt is the code's counter.                *)
RECURSIVE TrialLoop(_, _, _, _, _)
TrialLoop(self, first_data, cid, i, tried) ==
    IF i > Len(self.user_list)
    THEN [self |-> self, exc |-> "", cnt |-> Len(tried), tried |-> tried]
    ELSE LET user == self.user_list[i]
             s1 == IF self.last_access_user = NoUser
                   THEN [self EXCEPT !.last_access_user = user]
                   ELSE self
             t == CipherTry(self.ts_protocol, Password(user), first_data)
             tr == Append(tried, user)
         IN  IF t.st = "mac" THEN TrialLoop(s1, first_data, cid, i + 1, tr)
             ELSE IF t.st = "ok"
             THEN [self |-> [s1 EXCEPT !.first_data = Some(t.pt),
                                       !.cipher = IF self.ts_protocol = TRANSPORT_TCP
                                                  THEN [NewCipher(cid, Password(user)) EXCEPT !.dec = 1]
                                                  ELSE @,
                                       !.access_user = user],
                   exc |-> "", cnt |-> Len(tr), tried |-> tr]
             ELSE [self |-> s1, exc |-> "ValueError", cnt |-> Len(tr), tried |-> tr]

(* Variant: the salt is remembered only when a user was found.                *)
FindAccessUser_AddOnSuccess(self, bits, first_data, cid) ==
    LET salt == SubSeq(first_data, 1, SALT_SIZE)
    IN  IF BfContains(bits, salt)
        THEN [self |-> self, bf |-> bits, exc |-> "repeated salt", cnt |-> 0, tried |-> <<>>]
        ELSE LET r == TrialLoop(self, first_data, cid, 1, <<>>)
             IN  [self |-> r.self,
                  bf |-> IF r.exc = "" /\ r.self.access_user # NoUser
                         THEN BfAdd(bits, salt) ELSE bits,
                  exc |-> r.exc, cnt |-> r.cnt, tried |-> r.tried]

(* Variant: the salt is looked up but never added.                            *)
FindAccessUser_NeverAdd(self, bits, first_data, cid) ==
    LET salt == SubSeq(first_data, 1, SALT_SIZE)
    IN  IF BfContains(bits, salt)
        THEN [self |-> self, bf |-> bits, exc |-> "repeated salt", cnt |-> 0, tried |-> <<>>]
        ELSE LET r == TrialLoop(self, first_data, cid, 1, <<>>)
             IN  [self |-> r.self, bf |-> bits, exc |-> r.exc,
                  cnt |-> r.cnt, tried |-> r.tried]

FindAccessUser(self, bits, first_data, cid) ==
    LET salt == SubSeq(first_data, 1, SALT_SIZE)
    IN  IF BfContains(bits, salt)
        THEN [self |-> self, bf |-> bits, exc |-> "repeated salt", cnt |-> 0, tried |-> <<>>]
        ELSE LET r == TrialLoop(self, first_data, cid, 1, <<>>)
             IN  [self |-> r.self, bf |-> BfAdd(bits, salt), exc |-> r.exc,
                  cnt |-> r.cnt, tried |-> r.tried]

(* ------------------------------------------------------------------------ *)
(* _init_cipher_and_decrypt_first_data                                        *)
(* ------------------------------------------------------------------------ *)
(* w is the shared state the call reads and writes: bf, access_order, enable. *)
(* The result carries the session and shared state as the call leaves them,   *)
(* the exception raised ("" for none) and the value returned.                 *)
(* Variant: the ordering field is promoted before the enable flag is read.    *)
CheckAccessUser_PromoteFirst(f, w, ident, blob) ==
    LET s1 == f.self
        w1 == [w EXCEPT !.bf = f.bf]
        w2 == IF /\ s1.access_user # NoUser
                 /\ s1.last_access_user # NoUser
                 /\ s1.access_user # s1.last_access_user
              THEN [w1 EXCEPT !.access_order[s1.access_user] =
                        w1.access_order[First(s1.user_list, w1.access_order)] + 1]
              ELSE w1
        out(wf, exc, ret) ==
            [self |-> s1, w |-> wf, exc |-> exc, ret |-> ret, below |-> FALSE,
             ident |-> ident, blob |-> blob, cnt |-> f.cnt, tried |-> f.tried]
    IN  IF f.exc # "" THEN out(w1, f.exc, NoneVal)
        ELSE IF s1.access_user = NoUser THEN out(w1, "no valid user", NoneVal)
        ELSE IF ~ w1.enable[s1.access_user] THEN out(w2, "enable = False", NoneVal)
        ELSE out(w2, "", s1.first_data)

(* Variant: the promotion of lines 136-137 is left out.                       *)
CheckAccessUser_NoSave(f, w, ident, blob) ==
    LET s1 == f.self
        w1 == [w EXCEPT !.bf = f.bf]
        out(wf, exc, ret) ==
            [self |-> s1, w |-> wf, exc |-> exc, ret |-> ret, below |-> FALSE,
             ident |-> ident, blob |-> blob, cnt |-> f.cnt, tried |-> f.tried]
    IN  IF f.exc # "" THEN out(w1, f.exc, NoneVal)
        ELSE IF s1.access_user = NoUser THEN out(w1, "no valid user", NoneVal)
        ELSE IF ~ w1.enable[s1.access_user] THEN out(w1, "enable = False", NoneVal)
        ELSE out(w1, "", s1.first_data)

(* Lines 125-139: what follows the search, f being the session and filter    *)
(* the search left (or the untouched ones when the session was bound).        *)
CheckAccessUser(f, w, ident, blob) ==
    LET s1 == f.self
        w1 == [w EXCEPT !.bf = f.bf]
        out(wf, exc, ret) ==
            [self |-> s1, w |-> wf, exc |-> exc, ret |-> ret, below |-> FALSE,
             ident |-> ident, blob |-> blob, cnt |-> f.cnt, tried |-> f.tried]
    IN  IF f.exc # "" THEN out(w1, f.exc, NoneVal)
        ELSE IF s1.access_user = NoUser THEN out(w1, "no valid user", NoneVal)
        ELSE IF ~ w1.enable[s1.access_user] THEN out(w1, "enable = False", NoneVal)
        ELSE IF s1.last_access_user # NoUser /\ s1.access_user # s1.last_access_user
        THEN out([w1 EXCEPT !.access_order[s1.access_user] =
                     w1.access_order[First(s1.user_list, w1.access_order)] + 1],
                 "", s1.first_data)
        ELSE out(w1, "", s1.first_data)

(* Variant: the search runs whether or not the session has a user.            *)
InitCipherAndDecryptFirstData_AlwaysSearch(self, w, data, cid) ==
    IF Len(data) + Len(self.buffer) < self.first_data_len
    THEN [self |-> [self EXCEPT !.buffer = @ \o data], w |-> w, exc |-> "",
          ret |-> NoneVal, below |-> TRUE, ident |-> FALSE, blob |-> <<>>,
          cnt |-> 0, tried |-> <<>>]
    ELSE
    LET blob == self.buffer \o data
        s0 == [self EXCEPT !.buffer = <<>>]
    IN  The({CheckAccessUser(f, w, TRUE, blob) :
                f \in {FindAccessUser(s0, w.bf, blob, cid)}})

(* Variant: the buffer is cleared only once the first-data step succeeded.    *)
InitCipherAndDecryptFirstData_ClearOnSuccess(self, w, data, cid) ==
    IF Len(data) + Len(self.buffer) < self.first_data_len
    THEN [self |-> [self EXCEPT !.buffer = @ \o data], w |-> w, exc |-> "",
          ret |-> NoneVal, below |-> TRUE, ident |-> FALSE, blob |-> <<>>,
          cnt |-> 0, tried |-> <<>>]
    ELSE
    LET blob == self.buffer \o data
        s0 == [self EXCEPT !.buffer = <<>>]
        ident == s0.access_user = NoUser
        r == The({CheckAccessUser(f, w, ident, blob) :
                     f \in {IF ident THEN FindAccessUser(s0, w.bf, blob, cid)
                            ELSE [self |-> s0, bf |-> w.bf, exc |-> "", cnt |-> 0,
                                  tried |-> <<>>]}})
    IN  IF r.exc # "" THEN [r EXCEPT !.self.buffer = blob] ELSE r

InitCipherAndDecryptFirstData(self, w, data, cid) ==
    IF Len(data) + Len(self.buffer) < self.first_data_len
    THEN [self |-> [self EXCEPT !.buffer = @ \o data], w |-> w, exc |-> "",
          ret |-> NoneVal, below |-> TRUE, ident |-> FALSE, blob |-> <<>>,
          cnt |-> 0, tried |-> <<>>]
    ELSE
    LET blob == self.buffer \o data
        s0 == [self EXCEPT !.buffer = <<>>]
        ident == s0.access_user = NoUser
    IN  The({CheckAccessUser(f, w, ident, blob) :
                f \in {IF ident THEN FindAccessUser(s0, w.bf, blob, cid)
                       ELSE [self |-> s0, bf |-> w.bf, exc |-> "", cnt |-> 0,
                             tried |-> <<>>]}})

(* ------------------------------------------------------------------------ *)
(* _record_user_traffic, encrypt, decrypt                                     *)
(* ------------------------------------------------------------------------ *)
RecordUserTraffic(self, c, data_len) ==
    [traffic |-> IF self.access_user # NoUser
                 THEN [c.traffic EXCEPT ![self.access_user] =
                          [upload |-> @.upload + data_len, download |-> @.download + data_len]]
                 ELSE c.traffic,
     net |-> c.net + data_len]

(* Variant: encrypt builds a cipher on every call.                            *)
Encrypt_AlwaysNewCipher(self, c, data, salt, cid) ==
    LET c1 == RecordUserTraffic(self, c, Len(data))
    IN  IF self.access_user = NoUser
        THEN [self |-> self, c |-> c1, exc |-> "AttributeError", ret |-> NoneVal]
        ELSE IF self.ts_protocol = TRANSPORT_UDP
        THEN [self |-> self, c |-> c1, exc |-> "",
              ret |-> Some(Pack(Password(self.access_user), salt, data))]
        ELSE LET e == StreamEncrypt(NewCipher(cid, Password(self.access_user)), data)
             IN  [self |-> [self EXCEPT !.cipher = e.cipher], c |-> c1,
                  exc |-> "", ret |-> Some(e.out)]

(* Variant: a session without a user falls back on its first candidate.      *)
Encrypt_FirstCandidate(self, c, data, salt, cid) ==
    LET c1 == RecordUserTraffic(self, c, Len(data))
        user == IF self.access_user = NoUser THEN self.user_list[1]
                ELSE self.access_user
    IN  IF self.ts_protocol = TRANSPORT_UDP
        THEN [self |-> self, c |-> c1, exc |-> "",
              ret |-> Some(Pack(Password(user), salt, data))]
        ELSE LET ci == IF self.cipher.id = 0 THEN NewCipher(cid, Password(user))
                       ELSE self.cipher
                 e == StreamEncrypt(ci, data)
             IN  [self |-> [self EXCEPT !.cipher = e.cipher], c |-> c1,
                  exc |-> "", ret |-> Some(e.out)]

(* c is the counters: traffic and net. salt is the salt pack() draws.         *)
Encrypt(self, c, data, salt, cid) ==
    LET c1 == RecordUserTraffic(self, c, Len(data))
    IN  IF self.ts_protocol = TRANSPORT_UDP
        THEN IF self.access_user = NoUser
             THEN [self |-> self, c |-> c1, exc |-> "AttributeError", ret |-> NoneVal]
             ELSE [self |-> self, c |-> c1, exc |-> "",
                   ret |-> Some(Pack(Password(self.access_user), salt, data))]
        ELSE IF self.cipher.id = 0 /\ self.access_user = NoUser
             THEN [self |-> self, c |-> c1, exc |-> "AttributeError", ret |-> NoneVal]
             ELSE LET ci == IF self.cipher.id = 0
                            THEN NewCipher(cid, Password(self.access_user))
                            ELSE self.cipher
                      e == StreamEncrypt(ci, data)
                  IN  [self |-> [self EXCEPT !.cipher = e.cipher], c |-> c1,
                       exc |-> "", ret |-> Some(e.out)]

(* Lines 162-163: len(data) of what the first-data step returned, which is    *)
(* a TypeError when it returned None.                                         *)
RecordFirstData(r, c) ==
    IF r.exc # "" THEN r @@ [c |-> c]
    ELSE IF r.ret = NoneVal THEN [r EXCEPT !.exc = "TypeError"] @@ [c |-> c]
    ELSE r @@ [c |-> RecordUserTraffic(r.self, c, Len(r.ret[1]))]

Decrypt(self, w, c, data, cid) ==
    IF self.cipher.id = 0
    THEN The({RecordFirstData(r, c) :
                 r \in {InitCipherAndDecryptFirstData(self, w, data, cid)}})
    ELSE LET c1 == RecordUserTraffic(self, c, Len(data))
             base == [self |-> self, w |-> w, c |-> c1, exc |-> "", ret |-> NoneVal,
                      below |-> FALSE, ident |-> FALSE, blob |-> <<>>, cnt |-> 0,
                      tried |-> <<>>]
             d == StreamDecrypt(self.cipher, data)
         IN  [base EXCEPT !.self = [self EXCEPT !.cipher = d.cipher],
                          !.ret = Some(d.out)]

(* ------------------------------------------------------------------------ *)
(* What a call should have found, computed from the cipher alone               *)
(* ------------------------------------------------------------------------ *)
TrialOf(self, blob, i) ==
    CipherTry(self.ts_protocol, Password(self.user_list[i]), blob)

(* Position of the first candidate that authenticates the blob, every         *)
(* candidate before it failing the MAC check; 0 when there is none.           *)
FirstOk(self, blob) ==
    LET ok == {i \in 1..Len(self.user_list) :
                  /\ TrialOf(self, blob, i).st = "ok"
                  /\ \A j \in 1..(i - 1) : TrialOf(self, blob, j).st = "mac"}
    IN  IF ok = {} THEN 0 ELSE CHOOSE i \in ok : TRUE

(* Position of the first candidate whose cipher fails on the blob with an     *)
(* error other than the MAC failure, every candidate before it failing the    *)
(* MAC check; 0 when there is none.                                           *)
FirstHard(self, blob) ==
    LET hard == {i \in 1..Len(self.user_list) :
                    /\ TrialOf(self, blob, i).st = "other"
                    /\ \A j \in 1..(i - 1) : TrialOf(self, blob, j).st = "mac"}
    IN  IF hard = {} THEN 0 ELSE CHOOSE i \in hard : TRUE

AllMac(self, blob) ==
    \A i \in 1..Len(self.user_list) : TrialOf(self, blob, i).st = "mac"

(* The plaintext of the blob itself under the session's user.                 *)
OwnPlain(self, blob) ==
    IF Len(blob) < self.first_data_len THEN NoneVal
    ELSE IF self.access_user # NoUser
    THEN LET t == CipherTry(self.ts_protocol, Password(self.access_user), blob)
         IN  IF t.st = "ok" THEN Some(t.pt) ELSE NoneVal
    ELSE LET k == FirstOk(self, blob)
         IN  IF k = 0 THEN NoneVal ELSE Some(TrialOf(self, blob, k).pt)

IdentErrors == {"repeated salt", "no valid user", "enable = False", "ValueError"}

NoCall ==
    [op |-> "none", s |-> 0, exc |-> "", ret |-> NoneVal, len |-> 0, below |-> FALSE,
     ident |-> FALSE, salt_seen |-> FALSE, fresh |-> FALSE, order_changed |-> FALSE,
     cnt |-> 0, tried |-> <<>>, first_ok |-> 0,
     all_mac |-> FALSE, own |-> NoneVal, pre_cipher |-> 0, pre_user |-> NoUser,
     pre_buf |-> 0, was_failed |-> FALSE, cipher_used |-> 0,
     d_up |-> 0, d_down |-> 0, d_net |-> 0, d_other |-> FALSE, whole |-> TRUE,
     promo_hit |-> NoUser, first_hard |-> 0, salt_kept |-> FALSE, cont_mac |-> TRUE,
     changed |-> {}, top |-> 0]

(* What a call added to the counters of user u, and whether it changed the    *)
(* counters of any other user.                                                *)
Delta(pre, post, u, dir) == IF u = NoUser THEN 0 ELSE post[u][dir] - pre[u][dir]
OtherChanged(pre, post, u) == \E v \in Users \ {u} : post[v] # pre[v]

(* The user B of the claim about promotion: the session was created after B  *)
(* was promoted, no promotion on its port since, and the blob the call        *)
(* identifies authenticates under B's credential; NoUser otherwise.           *)
PromoHit(self, b, r) ==
    IF /\ r.ident
       /\ b # NoUser
       /\ promoted[UserPort(b)] = b
       /\ CipherTry(self.ts_protocol, Password(b), r.blob).st = "ok"
    THEN b ELSE NoUser

(* ------------------------------------------------------------------------ *)
(* Initial state and actions                                                  *)
(* ------------------------------------------------------------------------ *)
Init ==
    /\ cm = [s \in Sessions |-> NotCreated]
    /\ bf = {}
    /\ access_order = [u \in Users |-> 0]
    /\ enable = [u \in Users |-> u # DisabledUser]
    /\ traffic = [u \in Users |-> [upload |-> 0, download |-> 0]]
    /\ NETWORK_TRANSMIT_BYTES = 0
    /\ calls = 0
    /\ last = NoCall
    /\ processed = {}
    /\ fresh_obs = [q \in SaltSet |-> 0]
    /\ made = [s \in Sessions |-> 0]
    /\ failed = {}
    /\ promoted = [p \in Ports |-> NoUser]
    /\ born = [s \in Sessions |-> NoUser]
    /\ method \in MethodTables

(* get_cipher_by_port: a connection or flow is accepted on a port.            *)
GetCipherByPort(s, port, ts_protocol) ==
    /\ ~ cm[s].alive
    /\ \A t \in 1..(s - 1) : cm[t].alive
    /\ LET user_list == ListByPort(port, access_order)
           access_user == IF Len(user_list) = 1 THEN user_list[1] ELSE NoUser
       IN  cm' = [cm EXCEPT ![s] = NewCipherMan(user_list, access_user, ts_protocol)]
    /\ last' = [NoCall EXCEPT !.op = "new", !.s = s]
    /\ born' = [born EXCEPT ![s] = promoted[port]]
    /\ UNCHANGED <<bf, access_order, enable, traffic, NETWORK_TRANSMIT_BYTES, calls,
                   processed, fresh_obs, made, failed, promoted, method>>

DecryptCall(s, data) ==
    /\ cm[s].alive
    /\ calls < MaxCalls
    /\ \E self \in {cm[s]} :
       \E r \in {Decrypt(self, [bf |-> bf, access_order |-> access_order, enable |-> enable],
                         [traffic |-> traffic, net |-> NETWORK_TRANSMIT_BYTES],
                         data, made[s] + 1)} :
       \E salt \in {IF r.ident THEN SubSeq(r.blob, 1, SALT_SIZE) ELSE <<>>} :
           /\ cm' = [cm EXCEPT ![s] = r.self]
           /\ bf' = r.w.bf
           /\ access_order' = r.w.access_order
           /\ traffic' = r.c.traffic
           /\ NETWORK_TRANSMIT_BYTES' = r.c.net
           /\ processed' = IF r.ident THEN processed \cup {salt} ELSE processed
           /\ fresh_obs' = IF r.ident /\ r.exc # "repeated salt"
                           THEN [fresh_obs EXCEPT ![salt] = @ + 1]
                           ELSE fresh_obs
           /\ made' = IF r.self.cipher.id # self.cipher.id
                      THEN [made EXCEPT ![s] = @ + 1] ELSE made
           /\ failed' = IF /\ self.ts_protocol = TRANSPORT_TCP
                           /\ self.cipher.id = 0
                           /\ r.exc \in IdentErrors
                        THEN failed \cup {s} ELSE failed
           /\ last' = [op |-> "decrypt", s |-> s, exc |-> r.exc, ret |-> r.ret,
                       len |-> Len(data), below |-> r.below, ident |-> r.ident,
                       salt_seen |-> r.ident /\ salt \in processed,
                       fresh |-> r.ident /\ ~ BfContains(bf, salt),
                       order_changed |-> r.w.access_order # access_order,
                       cnt |-> r.cnt, tried |-> r.tried,
                       first_ok |-> IF r.ident THEN FirstOk(self, r.blob) ELSE 0,
                       all_mac |-> r.ident /\ AllMac(self, r.blob),
                       own |-> IF self.cipher.id = 0
                               THEN OwnPlain(self, self.buffer \o data)
                               ELSE NoneVal,
                       pre_cipher |-> self.cipher.id, pre_user |-> self.access_user,
                       pre_buf |-> Len(self.buffer), was_failed |-> s \in failed,
                       cipher_used |-> IF self.cipher.id # 0 THEN self.cipher.id
                                       ELSE IF r.exc = "" THEN r.self.cipher.id ELSE 0,
                       d_up |-> Delta(traffic, r.c.traffic, r.self.access_user, "upload"),
                       d_down |-> Delta(traffic, r.c.traffic, r.self.access_user, "download"),
                       d_net |-> r.c.net - NETWORK_TRANSMIT_BYTES,
                       d_other |-> OtherChanged(traffic, r.c.traffic, r.self.access_user),
                       whole |-> r.below \/ self.cipher.id # 0 \/ r.blob = data,
                       promo_hit |-> PromoHit(self, born[s], r),
                       first_hard |-> IF r.ident THEN FirstHard(self, r.blob) ELSE 0,
                       salt_kept |-> r.ident /\ BfContains(r.w.bf, salt),
                       cont_mac |-> \A k \in 1..(r.cnt - 1) :
                                       TrialOf(self, r.blob, k).st = "mac",
                       changed |-> {u \in Users : r.w.access_order[u] # access_order[u]},
                       top |-> access_order[First(self.user_list, access_order)]]
           /\ promoted' = IF r.ident /\ r.exc = "" /\ r.self.access_user # r.tried[1]
                          THEN [promoted EXCEPT ![UserPort(r.self.access_user)] =
                                    r.self.access_user]
                          ELSE promoted
    /\ calls' = calls + 1
    /\ UNCHANGED <<enable, born, method>>

EncryptCall(s, data, salt) ==
    /\ cm[s].alive
    /\ calls < MaxCalls
    /\ LET self == cm[s]
           r == Encrypt(self, [traffic |-> traffic, net |-> NETWORK_TRANSMIT_BYTES],
                        data, salt, made[s] + 1)
       IN  /\ cm' = [cm EXCEPT ![s] = r.self]
           /\ traffic' = r.c.traffic
           /\ NETWORK_TRANSMIT_BYTES' = r.c.net
           /\ made' = IF r.self.cipher.id # self.cipher.id
                      THEN [made EXCEPT ![s] = @ + 1] ELSE made
           /\ last' = [NoCall EXCEPT !.op = "encrypt", !.s = s, !.exc = r.exc,
                                     !.ret = r.ret, !.len = Len(data),
                                     !.pre_cipher = self.cipher.id,
                                     !.pre_user = self.access_user,
                                     !.pre_buf = Len(self.buffer),
                                     !.was_failed = s \in failed,
                                     !.cipher_used = r.self.cipher.id,
                                     !.d_up = Delta(traffic, r.c.traffic,
                                                    r.self.access_user, "upload"),
                                     !.d_down = Delta(traffic, r.c.traffic,
                                                      r.self.access_user, "download"),
                                     !.d_net = r.c.net - NETWORK_TRANSMIT_BYTES,
                                     !.d_other = OtherChanged(traffic, r.c.traffic,
                                                              r.self.access_user)]
    /\ calls' = calls + 1
    /\ UNCHANGED <<bf, access_order, enable, processed, fresh_obs, failed,
                   promoted, born, method>>

Next ==
    \/ \E s \in Sessions, port \in Ports, p \in Transports : GetCipherByPort(s, port, p)
    \/ \E s \in Sessions, data \in DataSet : DecryptCall(s, data)
    \/ \E s \in Sessions, data \in EncDataSet, salt \in SaltSet : EncryptCall(s, data, salt)

Spec == Init /\ [][Next]_vars

(* ------------------------------------------------------------------------ *)
(* Properties                                                                 *)
(* ------------------------------------------------------------------------ *)
IsDecrypt == last.op = "decrypt"
IsCall == last.op \in {"decrypt", "encrypt"}
Me == cm[last.s]

(* C1: once _find_access_user was given a blob with some salt, whatever came  *)
(* of it, every later blob with that salt given to _find_access_user, in any  *)
(* session, raises the repeated-salt error before any candidate is tried.     *)
C1_ReplaySafety ==
    (IsDecrypt /\ last.ident /\ last.salt_seen)
        => (last.exc = "repeated salt" /\ last.cnt = 0 /\ last.tried = <<>>)

(* A second session is refused the salt the first session was identified by.  *)
C1_Witness ==
    /\ IsDecrypt /\ last.ident /\ last.salt_seen
    /\ last.s = 2 /\ last.exc = "repeated salt"
    /\ cm[1].access_user # NoUser /\ Len(cm[1].user_list) > 1

(* C2: a blob with a fresh salt that authenticates under a candidate binds    *)
(* the first candidate, in list order, that authenticates it: access_user is  *)
(* that candidate, _first_data its plaintext, for TCP self.cipher its cipher, *)
(* and the loop counter is that candidate's 1-based position.                 *)
C2_TrialBindsFirstMatch ==
    (IsDecrypt /\ last.ident /\ last.fresh /\ last.first_ok > 0)
        => /\ Me.access_user = Me.user_list[last.first_ok]
           /\ last.cnt = last.first_ok
           /\ last.tried = SubSeq(Me.user_list, 1, last.first_ok)
           /\ Me.first_data = last.own
           /\ last.own # NoneVal
           /\ Me.ts_protocol = TRANSPORT_TCP
                  => (Me.cipher.id # 0 /\ Me.cipher.pw = Password(Me.access_user))
           /\ Me.ts_protocol = TRANSPORT_UDP => Me.cipher.id = 0

(* The second candidate of two is found after two trials and the call returns. *)
C2_Witness ==
    /\ IsDecrypt /\ last.ident /\ last.fresh /\ last.first_ok = 2
    /\ last.exc = "" /\ last.cnt = 2 /\ Me.access_user = Me.user_list[2]

(* C3: a decrypt call that leaves the byte count below _first_data_len        *)
(* appends its bytes to the buffer, runs no identification and returns the    *)
(* "not enough data" result without raising.                                  *)
C3_ThresholdGate ==
    (IsDecrypt /\ last.below)
        => /\ Len(Me.buffer) = last.pre_buf + last.len
           /\ ~ last.ident
           /\ last.exc = ""

(* C4: once a stream session failed during identification, no later call on   *)
(* it returns data and identification is not run on it again.                 *)
C4_FailureIsTerminal ==
    (IsCall /\ last.was_failed)
        => ((last.exc = "" => last.ret = NoneVal) /\ ~ last.ident)

(* C5: when the trial matches a candidate whose enable flag is false, the     *)
(* call raises the disabled-user error, returns nothing and promotes no       *)
(* access_order.                                                              *)
C5_DisabledUser ==
    (IsDecrypt /\ last.ident /\ last.fresh /\ last.first_ok > 0
        /\ ~ enable[Me.user_list[last.first_ok]])
        => (last.exc = "enable = False" /\ last.ret = NoneVal /\ ~ last.order_changed)

(* A disabled user is matched as second candidate, where an enabled one       *)
(* would have been promoted.                                                  *)
C5_Witness ==
    /\ IsDecrypt /\ last.ident /\ last.fresh /\ last.first_ok = 2
    /\ ~ enable[Me.user_list[2]] /\ last.exc = "enable = False"

(* C6: in a UDP session a decrypt call given a complete packet, the buffer    *)
(* being empty, returns the plaintext of that very packet.                    *)
C6_PerPacketDatagram ==
    (IsDecrypt /\ Me.ts_protocol = TRANSPORT_UDP /\ last.pre_buf = 0
        /\ last.len >= Me.first_data_len /\ last.exc = "")
        => (last.ret = last.own /\ last.ret # NoneVal)

(* C7: a session bound at construction, without a cipher yet, decrypts the    *)
(* first blob that reaches _first_data_len with its user's credential and     *)
(* returns the plaintext.                                                     *)
C7_BoundDirectDecrypt ==
    (IsDecrypt /\ Len(Me.user_list) = 1 /\ last.pre_cipher = 0 /\ ~ last.below
        /\ last.own # NoneVal /\ enable[Me.access_user])
        => (last.exc = "" /\ last.ret = last.own)

(* C8: a blob with a fresh salt that fails the MAC check of every candidate   *)
(* raises "no valid user" after exactly one trial per candidate, and the      *)
(* session keeps no user and no cipher.                                       *)
C8_ExhaustiveTrial ==
    (IsDecrypt /\ last.ident /\ last.fresh /\ last.all_mac)
        => /\ last.exc = "no valid user"
           /\ last.cnt = Len(Me.user_list)
           /\ last.tried = Me.user_list
           /\ Me.access_user = NoUser
           /\ Me.cipher.id = 0

C8_Witness ==
    /\ IsDecrypt /\ last.ident /\ last.fresh /\ last.all_mac
    /\ Len(Me.user_list) >= 2 /\ last.exc = "no valid user"

(* C9: of all the identifications that are given one salt, in whatever order  *)
(* the sessions' calls run, at most one sees the salt as fresh.               *)
C9_AtMostOneFresh == \A q \in SaltSet : fresh_obs[q] <= 1

(* Two sessions gave the same salt; the first saw it fresh, the second not.   *)
C9_Witness ==
    /\ IsDecrypt /\ last.ident /\ last.s = 2 /\ last.exc = "repeated salt"
    /\ \E q \in processed : fresh_obs[q] = 1
    /\ calls = 2 /\ Cardinality(processed) = 1

(* C10: self.cipher of a session is assigned at most once and, once set, is   *)
(* the cipher every later encrypt and decrypt of the session runs on.         *)
C10_CipherContinuity ==
    /\ \A s \in Sessions : made[s] <= 1 /\ cm[s].cipher.id = made[s]
    /\ (IsCall /\ last.pre_cipher # 0)
           => (last.cipher_used = last.pre_cipher /\ Me.cipher.id = last.pre_cipher)

(* The cipher a trial decryption left serves the encrypt that follows.        *)
C10_Witness ==
    /\ last.op = "encrypt" /\ last.pre_cipher # 0 /\ last.exc = ""
    /\ Me.cipher.dec = 1 /\ Me.cipher.enc = 1 /\ Me.cipher.id = last.pre_cipher

(* C11: the access_user of a session, once set, is never replaced, and a TCP  *)
(* session that has a user never runs _find_access_user again.                *)
C11_SingleBinding ==
    (IsCall /\ last.pre_user # NoUser)
        => /\ Me.access_user = last.pre_user
           /\ Me.ts_protocol = TRANSPORT_TCP => ~ last.ident

(* A session bound by identification is given another complete packet.        *)
C11_Witness ==
    /\ IsDecrypt /\ last.pre_user # NoUser /\ Len(Me.user_list) > 1
    /\ last.pre_cipher = 0 /\ ~ last.below /\ Me.access_user = last.pre_user

C13_ExactTraffic ==
    (IsCall /\ last.exc = "" /\ Me.access_user # NoUser)
        => /\ last.d_up = (IF last.pre_cipher = 0 /\ IsDecrypt
                           THEN last.pre_buf + last.len ELSE last.len)
           /\ last.d_down = last.d_up
           /\ ~ last.d_other

(* C14: a session created after user B was promoted, with no promotion on    *)
(* the port since, has B first in its user_list, and a blob with a fresh salt *)
(* that authenticates under B is identified as B after exactly one trial.     *)
C14_PromotedFoundFirst ==
    (IsDecrypt /\ last.ident /\ last.fresh /\ last.promo_hit # NoUser)
        => /\ Me.user_list[1] = last.promo_hit
           /\ Me.access_user = last.promo_hit
           /\ last.cnt = 1
           /\ last.tried = <<last.promo_hit>>
           /\ last.exc = ""

(* The second session finds at once the user the first session promoted.      *)
C14_Witness ==
    /\ IsDecrypt /\ last.ident /\ last.fresh /\ last.promo_hit # NoUser
    /\ last.s = 2 /\ last.cnt = 1 /\ Me.access_user = cm[1].access_user
    /\ cm[1].user_list[1] # cm[1].access_user

(* C15: no session exists whose user_list holds a user with a method other   *)
(* than the session's: __init__ refuses such a list.                          *)
C15_MethodMismatchRejected ==
    \A s \in Sessions :
        cm[s].alive =>
            \A i \in 1..Len(cm[s].user_list) :
                UserMethod(cm[s].user_list[i]) = cm[s].method

(* C16: encrypt on a session that has no access_user raises, returns no       *)
(* ciphertext and leaves self.cipher unset, for TCP and for UDP.              *)
C16_EncryptUnboundFails ==
    (last.op = "encrypt" /\ last.pre_user = NoUser)
        => /\ last.exc # ""
           /\ last.ret = NoneVal
           /\ Me.cipher.id = 0
           /\ Me.access_user = NoUser

(* encrypt on a session whose identification has just failed.                 *)
C16_Witness ==
    /\ last.op = "encrypt" /\ last.pre_user = NoUser /\ last.was_failed
    /\ last.exc = "AttributeError" /\ Len(Me.user_list) > 1 /\ calls = 2

(* C17: when the cipher of candidate i fails with an error that is not the   *)
(* MAC failure, decrypt raises that error, candidates after i are not tried,  *)
(* the session keeps no user and no cipher and the salt stays in the filter;  *)
(* the loop goes past a candidate only on its MAC failure.                    *)
C17_HardFailureStops ==
    /\ (IsDecrypt /\ last.ident /\ last.fresh /\ last.first_hard > 0)
           => /\ last.exc = "ValueError"
              /\ last.cnt = last.first_hard
              /\ last.tried = SubSeq(Me.user_list, 1, last.first_hard)
              /\ Me.access_user = NoUser
              /\ Me.cipher.id = 0
              /\ last.salt_kept
    /\ (IsDecrypt /\ last.ident) => last.cont_mac

(* The first of two candidates fails hard; the second is never tried.         *)
C17_Witness ==
    /\ IsDecrypt /\ last.ident /\ last.fresh /\ last.first_hard = 1
    /\ Len(Me.user_list) = 2 /\ last.exc = "ValueError" /\ last.cnt = 1

(* C18: a decrypt call changes access_order only when its identification     *)
(* matched an enabled user that is not the first candidate iterated; then     *)
(* only the matched user's access_order changes, to the value of the          *)
(* directory's first candidate plus one, above every other candidate of the   *)
(* port; any other call leaves every access_order as it was.                  *)
C18_PromotionRule ==
    IF IsDecrypt /\ last.ident /\ last.exc = "" /\ Me.access_user # last.tried[1]
    THEN /\ last.changed = {Me.access_user}
         /\ access_order[Me.access_user] = last.top + 1
         /\ \A i \in 1..Len(Me.user_list) :
                Me.user_list[i] # Me.access_user
                    => access_order[Me.access_user] > access_order[Me.user_list[i]]
    ELSE last.changed = {}

(* Traffic recorded for the users 1..n in the upload direction.               *)
RECURSIVE UploadUpTo(_)
UploadUpTo(n) == IF n = 0 THEN 0 ELSE traffic[n].upload + UploadUpTo(n - 1)

(* C19: NETWORK_TRANSMIT_BYTES equals the traffic recorded for all users in   *)
(* one direction, and a call that raises changes neither the process-wide     *)
(* counter nor a user's counters.                                             *)
C19_CounterConsistency ==
    /\ NETWORK_TRANSMIT_BYTES = UploadUpTo(NumUsers)
    /\ (IsCall /\ last.exc # "")
           => (last.d_net = 0 /\ last.d_up = 0 /\ last.d_down = 0 /\ ~ last.d_other)

(* C20: in a UDP session the blob the first-data step works on is the packet *)
(* of the call alone, so the salt looked up in the filter is the packet's     *)
(* own leading SALT_SIZE bytes; no earlier packet's bytes come before it.     *)
C20_DatagramIsolation ==
    (IsDecrypt /\ Me.ts_protocol = TRANSPORT_UDP /\ ~ last.below)
        => (last.whole /\ last.pre_buf = 0)

====
